---- MODULE Spec2Model ----
(***************************************************************************)
(* chart-genie: chart suggestion and ECharts configuration synthesis.      *)
(*                                                                         *)
(* Modelled sources:                                                       *)
(*   chartSuggestions.ts   (src/unnamed/part_001)                          *)
(*   mcpEChartsService.ts  (src/src/utils/dataParser.ts, lines 263-786)    *)
(*   dataParser.ts         (src/src/utils/dataParser.ts, lines 1-261)      *)
(*                                                                         *)
(* Conventions.  An optional JavaScript value is a sequence of length 0    *)
(* (undefined) or 1 (Some).  An optional string is NONE when undefined.    *)
(* Cell values are strings.  A function that throws returns Thrown.        *)
(***************************************************************************)
EXTENDS Integers, Sequences, FiniteSets, TLC

\* ------------------------------------------------------------------------
\* Bounds of the explored input space
\* ------------------------------------------------------------------------
MaxCols == 4

MaxRows == 1

\* Handler invocations explored in one run of the App
MaxTasks == 3

\* Rows of the longest Table the row-sampling builders are run on
MaxSampleRows == 51

\* ------------------------------------------------------------------------
\* Generic helpers
\* ------------------------------------------------------------------------
NONE == "undefined"

GHOST == "missing_column"

Some(x) == <<x>>

Nothing == <<>>

Range(s) == { s[i] : i \in 1..Len(s) }

\* Array.prototype.map
Map(F(_), s) == [ i \in 1..Len(s) |-> F(s[i]) ]

\* JavaScript `a || b` on optional strings (a column name is never "")
OrElse(a, b) == IF a # NONE /\ a # "" THEN a ELSE b

\* arr[i] for a 0-based JavaScript index i on an array of strings
At(arr, i) == IF i >= 0 /\ i < Len(arr) THEN arr[i + 1] ELSE NONE

\* suggestion.yAxis?.[0]
YAxis0(suggestion) == At(suggestion.yAxis, 0)

\* ------------------------------------------------------------------------
\* Tabular data model (ParsedData)
\* ------------------------------------------------------------------------
ColumnTypes == {"string", "number", "date"}

ColNames == <<"c1", "c2", "c3", "c4", "c5", "c6">>

\* A cell of row r (1-based) in a column of the given type
CellOf(type, r) ==
  CASE type = "number" -> IF r % 3 = 1 THEN "10" ELSE IF r % 3 = 2 THEN "20" ELSE "0"
    [] type = "date" -> IF r = 1 THEN "2024-01-01" ELSE "2024-01-02"
    [] OTHER -> IF r % 2 = 1 THEN "A" ELSE "B"

\* processData: the three name lists are the column names filtered by type,
\* in column order
NamesOfType(columns, type) ==
  LET Pick(c) == c.name
  IN Map(Pick, SelectSeq(columns, LAMBDA c : c.type = type))

Summary(columns, rows) ==
  [ totalRows |-> Len(rows),
    totalColumns |-> Len(columns),
    numericColumns |-> NamesOfType(columns, "number"),
    stringColumns |-> NamesOfType(columns, "string"),
    dateColumns |-> NamesOfType(columns, "date") ]

MkTable(types, n) ==
  LET columns == [ i \in 1..Len(types) |-> [ name |-> ColNames[i], type |-> types[i] ] ]
      rows == [ r \in 1..n |-> [ i \in 1..Len(types) |-> CellOf(types[i], r) ] ]
  IN [ columns |-> columns, rows |-> rows, summary |-> Summary(columns, rows) ]

TypeSeqs == UNION { [ 1..k -> ColumnTypes ] : k \in 0..MaxCols }

Tables == { MkTable(types, n) : types \in TypeSeqs, n \in 0..MaxRows }

\* data.columns.findIndex((col) => col.name === name), 0-based, -1 if absent
FindIndex(data, name) ==
  LET hits == { i \in 1..Len(data.columns) : data.columns[i].name = name }
  IN IF hits = {} THEN -1
     ELSE (CHOOSE i \in hits : \A j \in hits : i <= j) - 1

\* row[idx] for a 0-based index; out of range reads undefined
Cell(row, idx) == At(row, idx)

\* ------------------------------------------------------------------------
\* ChartSuggestion
\* ------------------------------------------------------------------------
ChartTypes ==
  { "bar", "line", "pie", "scatter", "area", "radar", "heatmap", "funnel",
    "gauge", "tree", "treemap", "sunburst", "parallel", "sankey", "graph",
    "boxplot", "candlestick", "themeRiver" }

\* The fields `reasoning` and `preview` are free text that no operation
\* reads; they are left out of the record.
Suggestion(type, title, description, confidence, xAxis, yAxis, series, useCase, complexity) ==
  [ type |-> type, title |-> title, description |-> description,
    confidence |-> confidence, xAxis |-> xAxis, yAxis |-> yAxis,
    series |-> series, useCase |-> useCase, complexity |-> complexity,
    aiEnhanced |-> FALSE ]

\* An insertion that puts a suggestion before those of equal confidence
RECURSIVE InsertByConfidence_beforeEqual(_, _)
InsertByConfidence_beforeEqual(x, sorted) ==
  IF sorted = <<>> THEN <<x>>
  ELSE IF Head(sorted).confidence > x.confidence
       THEN <<Head(sorted)>> \o InsertByConfidence_beforeEqual(x, Tail(sorted))
       ELSE <<x>> \o sorted

\* Array.prototype.sort((a, b) => b.confidence - a.confidence): a stable
\* sort, confidence descending
RECURSIVE InsertByConfidence(_, _)
InsertByConfidence(x, sorted) ==
  IF sorted = <<>> THEN <<x>>
  ELSE IF Head(sorted).confidence >= x.confidence
       THEN <<Head(sorted)>> \o InsertByConfidence(x, Tail(sorted))
       ELSE <<x>> \o sorted

RECURSIVE SortFrom(_, _)
SortFrom(todo, sorted) ==
  IF todo = <<>> THEN sorted
  ELSE SortFrom(Tail(todo), InsertByConfidence(Head(todo), sorted))

\* A comparator of a.confidence - b.confidence in place of b - a
RECURSIVE SortAscending(_)
SortAscending(suggestions) ==
  IF suggestions = <<>> THEN <<>>
  ELSE LET rest == SortAscending(Tail(suggestions))
           x == Head(suggestions)
       IN SelectSeq(rest, LAMBDA y : y.confidence < x.confidence) \o <<x>>
          \o SelectSeq(rest, LAMBDA y : y.confidence >= x.confidence)

SortByConfidence(suggestions) == SortFrom(suggestions, <<>>)

\* `cond ? [x] : []`, the effect of a guarded suggestions.push(x)
PushIf(cond, x) == IF cond THEN <<x>> ELSE <<>>

\* A scatter suggestion with numericColumns[0] on both axes
ScatterSuggestion_sameColumn(summary) ==
  Suggestion("scatter", "Correlation Explorer",
    "Discover relationships and patterns between two numeric variables",
    80, At(summary.numericColumns, 0), <<At(summary.numericColumns, 0)>>, NONE,
    "Height vs weight, advertising spend vs sales, or any two-variable relationship",
    "intermediate")

\* The suggestion pushed by the scatter rule
ScatterSuggestion(summary) ==
  Suggestion("scatter", "Correlation Explorer",
    "Discover relationships and patterns between two numeric variables",
    80, At(summary.numericColumns, 0), <<At(summary.numericColumns, 1)>>, NONE,
    "Height vs weight, advertising spend vs sales, or any two-variable relationship",
    "intermediate")

\* The seven guarded pushes of generateLocalSuggestions, in source order
LocalRules(data) ==
  LET summary == data.summary
      nStr == Len(summary.stringColumns)
      nNum == Len(summary.numericColumns)
      nDate == Len(summary.dateColumns)
      suggestions ==
        PushIf(nStr >= 1 /\ nNum >= 1,
          Suggestion("bar", "Category Comparison",
            "Compare values across different categories with clear visual bars",
            85, At(summary.stringColumns, 0), <<At(summary.numericColumns, 0)>>, NONE,
            "Comparing sales by product, performance by team, or values by category",
            "simple"))
        \o PushIf(nDate >= 1 /\ nNum >= 1,
          Suggestion("line", "Time Series Trends",
            "Track changes and trends over time with connected data points",
            90, At(summary.dateColumns, 0), <<At(summary.numericColumns, 0)>>, NONE,
            "Stock prices, website traffic, sales over time, or any temporal data",
            "simple"))
        \o PushIf(nStr >= 1 /\ nNum >= 1,
          Suggestion("pie", "Proportion Analysis",
            "Show how parts relate to the whole with intuitive slices",
            70, NONE, <<>>, At(summary.stringColumns, 0),
            "Market share, budget allocation, survey responses, or composition analysis",
            "simple"))
        \o PushIf(nNum >= 2, ScatterSuggestion(summary))
        \o PushIf(nDate >= 1 /\ nNum >= 1,
          Suggestion("area", "Cumulative Timeline",
            "Emphasize volume and cumulative values over time with filled areas",
            75, At(summary.dateColumns, 0), <<At(summary.numericColumns, 0)>>, NONE,
            "Revenue accumulation, user growth, inventory levels, or volume over time",
            "simple"))
        \o PushIf(nNum >= 3,
          Suggestion("radar", "Multi-Metric Comparison",
            "Compare multiple metrics simultaneously with spider web visualization",
            75, NONE, <<>>, NONE,
            "Performance evaluation, skill assessment, product comparison across features",
            "intermediate"))
        \o PushIf(nNum >= 2 /\ nStr >= 1,
          Suggestion("heatmap", "Pattern Heatmap",
            "Reveal patterns in dense data using color intensity",
            65, NONE, <<>>, NONE,
            "Website activity, correlation matrices, time-based patterns, or density visualization",
            "advanced"))
  IN suggestions

\* A radar guard of `> 3` in place of `>= 3`
generateLocalSuggestions_radarOffByOne(data) ==
  SortByConfidence(SelectSeq(LocalRules(data),
    LAMBDA s : s.type = "radar" => Len(data.summary.numericColumns) > 3))

generateLocalSuggestions(data) == SortByConfidence(LocalRules(data))

\* ------------------------------------------------------------------------
\* Enhancement client (MCPEChartsService)
\* ------------------------------------------------------------------------
\* An MCPSuggestion as the server sends it; confidence is optional
MCPSuggestion(type, title, description, confidence, useCase, complexity) ==
  [ type |-> type, title |-> title, description |-> description,
    confidence |-> confidence, xAxis |-> NONE, yAxis |-> NONE, series |-> NONE,
    useCase |-> useCase, complexity |-> complexity ]

\* prepareDataForMCP: the projection of the Table sent to the server
prepareDataForMCP(data) ==
  [ columns |-> Map(LAMBDA c : [ name |-> c.name, type |-> c.type ], data.columns),
    summary |-> data.summary,
    rowCount |-> Len(data.rows) ]

\* callMCPServer, tool "generate_suggestions": the built-in simulated server
MockSuggestions(dataInfo) ==
  LET types == { dataInfo.columns[i].type : i \in 1..Len(dataInfo.columns) }
      hasCategories == "string" \in types
      hasNumbers == "number" \in types
      hasDates == "date" \in types
      numericCount == Cardinality({ i \in 1..Len(dataInfo.columns) : dataInfo.columns[i].type = "number" })
  IN PushIf(hasCategories /\ hasNumbers,
       MCPSuggestion("bar", "Smart Bar Chart",
         "AI-optimized categorical comparison with intelligent grouping", Some(95),
         "Sales by product, performance metrics, survey results, or any categorical comparison",
         "simple"))
     \o PushIf(hasCategories /\ hasNumbers,
       MCPSuggestion("funnel", "Conversion Funnel",
         "Visualize step-by-step process or conversion rates", Some(78), NONE, NONE))
     \o PushIf(hasDates /\ hasNumbers,
       MCPSuggestion("line", "Advanced Time Series",
         "Interactive time-based analysis with zoom and data brush", Some(92), NONE, NONE))
     \o PushIf(hasDates /\ hasNumbers,
       MCPSuggestion("area", "Stacked Area Timeline",
         "Show cumulative trends with smooth gradients", Some(85), NONE, NONE))
     \o PushIf(numericCount >= 3,
       MCPSuggestion("parallel", "Parallel Coordinates",
         "Multi-dimensional data exploration with interactive filtering", Some(88), NONE, NONE))
     \o PushIf(numericCount >= 3,
       MCPSuggestion("radar", "Multi-Metric Radar",
         "Compare multiple metrics across categories", Some(82), NONE, NONE))
     \o PushIf(numericCount >= 2,
       MCPSuggestion("scatter", "Enhanced Scatter Plot",
         "Correlation analysis with regression lines and clustering", Some(90), NONE, NONE))
     \o PushIf(hasCategories,
       MCPSuggestion("treemap", "Hierarchical Treemap",
         "Space-efficient hierarchical data visualization", Some(75), NONE, NONE))
     \o PushIf(hasCategories,
       MCPSuggestion("sunburst", "Sunburst Diagram",
         "Multi-level categorical data with radial layout", Some(70), NONE, NONE))

\* ------------------------------------------------------------------------
\* JavaScript numbers
\* ------------------------------------------------------------------------
\* A number is [k, v]: k = "num" with integer v, or "nan", "inf", "ninf".
\* In a configuration a number is written as a string token.
Num(v) == [ k |-> "num", v |-> v ]

NaN == [ k |-> "nan", v |-> 0 ]

NegInfinity == [ k |-> "ninf", v |-> 0 ]

\* Number(cell): a numeric cell is its value, null and "" are 0, every
\* other string and undefined are NaN
Number(cell) ==
  CASE cell = "10" -> Num(10)
    [] cell = "20" -> Num(20)
    [] cell = "0" -> Num(0)
    [] cell = "null" -> Num(0)
    [] cell = "" -> Num(0)
    [] OTHER -> NaN

\* x || 0 on a number: NaN and 0 are falsy
OrZero(x) == IF x.k = "nan" THEN Num(0) ELSE x

IsFiniteNum(x) == x.k = "num"

Tok(x) ==
  CASE x.k = "num" -> ToString(x.v)
    [] x.k = "nan" -> "NaN"
    [] x.k = "inf" -> "Infinity"
    [] OTHER -> "-Infinity"

\* ------------------------------------------------------------------------
\* EChartsOption
\* ------------------------------------------------------------------------
colorPalette ==
  << "#6366f1", "#8b5cf6", "#06b6d4", "#10b981",
     "#f59e0b", "#ef4444", "#ec4899", "#6d28d9" >>

\* One element of config.series.  `type` is NONE when the key is missing,
\* `data` is an optional payload, `areaStyle` is the opacity or NONE, `max`
\* is the scale maximum of a funnel or gauge series or NONE.
Series(type, name, data, areaStyle) ==
  [ type |-> type, name |-> name, data |-> Some(data), areaStyle |-> areaStyle,
    max |-> NONE ]

Axis(type, name, data) == [ type |-> type, name |-> name, data |-> data ]

\* The placeholder series of the final safety net of createLocalEChartsOption
SafeFallbackSeries == Series("bar", "No Data", <<"0">>, NONE)

\* baseConfig of createLocalEChartsOption; a missing key is Nothing
BaseConfig(chartTitle) ==
  [ title |-> Some(chartTitle),
    tooltip |-> Some("axis"),
    legend |-> Nothing,
    xAxis |-> Nothing,
    yAxis |-> Nothing,
    series |-> Some(<<>>),
    color |-> Nothing,
    radar |-> Nothing,
    visualMap |-> Nothing,
    parallelAxis |-> Nothing,
    backgroundColor |-> NONE ]

\* The result of a builder: a configuration, or Thrown; `log` is the
\* sequence of console.warn / console.error messages written on the way
Returned(config) == [ threw |-> FALSE, config |-> config, log |-> <<>> ]

Thrown == [ threw |-> TRUE, config |-> BaseConfig(NONE), log |-> <<>> ]

\* console.warn(msg) before the rest of the function
WithLog(msg, result) == [ result EXCEPT !.log = <<msg>> \o @ ]

\* data.rows.map((row) => row[idx])
ColumnCells(data, idx) == Map(LAMBDA row : Cell(row, idx), data.rows)

createBarChart(baseConfig, data, suggestion, colors) ==
  LET xAxisColumn == OrElse(suggestion.xAxis, At(data.summary.stringColumns, 0))
      yAxisColumn == OrElse(YAxis0(suggestion), At(data.summary.numericColumns, 0))
      xAxisIndex == FindIndex(data, xAxisColumn)
      yAxisIndex == FindIndex(data, yAxisColumn)
  IN IF xAxisIndex = -1 \/ yAxisIndex = -1
     THEN Thrown
     ELSE Returned([ baseConfig EXCEPT
            !.color = Some(colors),
            !.xAxis = Some(Axis("category", NONE, ColumnCells(data, xAxisIndex))),
            !.yAxis = Some(Axis("value", NONE, <<>>)),
            !.series = Some(<< Series("bar", yAxisColumn, ColumnCells(data, yAxisIndex), NONE) >>) ])

createLineChart(baseConfig, data, suggestion, colors) ==
  LET xAxisColumn == OrElse(suggestion.xAxis,
                       OrElse(At(data.summary.dateColumns, 0), At(data.summary.stringColumns, 0)))
      yAxisColumn == OrElse(YAxis0(suggestion), At(data.summary.numericColumns, 0))
      xAxisIndex == FindIndex(data, xAxisColumn)
      yAxisIndex == FindIndex(data, yAxisColumn)
  IN Returned([ baseConfig EXCEPT
       !.color = Some(colors),
       !.xAxis = Some(Axis("category", NONE, ColumnCells(data, xAxisIndex))),
       !.yAxis = Some(Axis("value", NONE, <<>>)),
       !.series = Some(<< Series("line", yAxisColumn, ColumnCells(data, yAxisIndex), "0.1") >>) ])

createPieChart(baseConfig, data, suggestion, colors) ==
  LET categoryColumn == OrElse(suggestion.series, At(data.summary.stringColumns, 0))
      valueColumn == OrElse(YAxis0(suggestion), At(data.summary.numericColumns, 0))
      categoryIndex == FindIndex(data, categoryColumn)
      valueIndex == FindIndex(data, valueColumn)
      pieData == Map(LAMBDA row : [ name |-> Cell(row, categoryIndex),
                                    value |-> Cell(row, valueIndex) ], data.rows)
  IN Returned([ baseConfig EXCEPT
       !.color = Some(colors),
       !.tooltip = Some("item"),
       !.legend = Some("vertical"),
       !.series = Some(<< Series("pie", categoryColumn, pieData, NONE) >>) ])

createScatterChart(baseConfig, data, suggestion, colors) ==
  LET xAxisColumn == OrElse(suggestion.xAxis, At(data.summary.numericColumns, 0))
      yAxisColumn == OrElse(YAxis0(suggestion), At(data.summary.numericColumns, 1))
      xAxisIndex == FindIndex(data, xAxisColumn)
      yAxisIndex == FindIndex(data, yAxisColumn)
      scatterData == Map(LAMBDA row : << Cell(row, xAxisIndex), Cell(row, yAxisIndex) >>, data.rows)
  IN Returned([ baseConfig EXCEPT
       !.color = Some(colors),
       !.xAxis = Some(Axis("value", xAxisColumn, <<>>)),
       !.yAxis = Some(Axis("value", yAxisColumn, <<>>)),
       !.series = Some(<< Series("scatter", xAxisColumn \o " vs " \o yAxisColumn, scatterData, NONE) >>) ])

createAreaChart(baseConfig, data, suggestion, colors) ==
  LET xAxisColumn == OrElse(suggestion.xAxis,
                       OrElse(At(data.summary.dateColumns, 0), At(data.summary.stringColumns, 0)))
      yAxisColumn == OrElse(YAxis0(suggestion), At(data.summary.numericColumns, 0))
      xAxisIndex == FindIndex(data, xAxisColumn)
      yAxisIndex == FindIndex(data, yAxisColumn)
  IN Returned([ baseConfig EXCEPT
       !.color = Some(colors),
       !.xAxis = Some(Axis("category", NONE, ColumnCells(data, xAxisIndex))),
       !.yAxis = Some(Axis("value", NONE, <<>>)),
       !.series = Some(<< Series("line", yAxisColumn, ColumnCells(data, yAxisIndex), "0.6") >>) ])

\* ------------------------------------------------------------------------
\* Numeric reductions used by the builders
\* ------------------------------------------------------------------------
RadarMaxMetrics == 6

RadarMaxRows == 5

SunburstMaxRows == 10

ParallelMaxMetrics == 6

ParallelMaxRows == 50

FallbackMax == 100

\* The values Math.random() * 100 is drawn from
RandomValues == { 37, 81 }

\* A slice that keeps every element
Slice_all(arr, n) == arr

\* arr.slice(0, n)
Slice(arr, n) == SubSeq(arr, 1, IF Len(arr) < n THEN Len(arr) ELSE n)

\* String(value) of a cell; cells are already written as strings and
\* String(undefined) is "undefined"
StringOf(cell) == cell

\* Math.max(...values): -Infinity on no values, NaN if any value is NaN
MathMax(values) ==
  IF values = <<>> THEN NegInfinity
  ELSE IF \E i \in 1..Len(values) : values[i].k = "nan" THEN NaN
  ELSE IF \E i \in 1..Len(values) : values[i].k = "inf" THEN [ k |-> "inf", v |-> 0 ]
  ELSE LET fin == { values[i].v : i \in { j \in 1..Len(values) : values[j].k = "num" } }
       IN IF fin = {} THEN NegInfinity
          ELSE Num(CHOOSE m \in fin : \A x \in fin : x <= m)

\* Math.min(...values) over finite values
MathMin(values) ==
  LET fin == { values[i].v : i \in 1..Len(values) }
  IN Num(CHOOSE m \in fin : \A x \in fin : m <= x)

\* x * 1.2; exact for the multiples of 5 the cells hold
Times12(x) == IF x.k = "num" THEN Num((x.v * 12) \div 10) ELSE x

\* x || 100 on a number
OrFallbackMax(x) == IF x.k = "nan" \/ (x.k = "num" /\ x.v = 0) THEN Num(FallbackMax) ELSE x

\* Number(row[colIndex]) || 0, then non-finite to 0
SafeNumber(cell) ==
  LET value == OrZero(Number(cell))
  IN IF ~IsFiniteNum(value) THEN Num(0) ELSE value

\* values.reduce((a, b) => a + b, 0) / values.length, as a token
RECURSIVE SumOf(_)
SumOf(values) == IF values = <<>> THEN 0 ELSE Head(values).v + SumOf(Tail(values))

Average(values) ==
  IF values = <<>> THEN "NaN"
  ELSE IF \E i \in 1..Len(values) : values[i].k # "num" THEN "NaN"
  ELSE LET sum == SumOf(values)
           n == Len(values)
       IN IF sum % n = 0 THEN ToString(sum \div n)
          ELSE ToString(sum) \o "/" \o ToString(n)

\* [...new Set(arr)]: first occurrences, in order
RECURSIVE Unique(_)
Unique(arr) ==
  IF arr = <<>> THEN <<>>
  ELSE LET init == Unique(SubSeq(arr, 1, Len(arr) - 1))
           last == arr[Len(arr)]
       IN IF last \in Range(init) THEN init ELSE Append(init, last)

\* .sort((a, b) => b.value - a.value) on records with a numeric `value`;
\* a NaN difference compares as equal
ValueBefore(a, b) == a.value.k = "num" /\ b.value.k = "num" /\ a.value.v > b.value.v

RECURSIVE InsertByValue(_, _)
InsertByValue(x, sorted) ==
  IF sorted = <<>> THEN <<x>>
  ELSE IF ValueBefore(x, Head(sorted))
       THEN <<x>> \o sorted
       ELSE <<Head(sorted)>> \o InsertByValue(x, Tail(sorted))

RECURSIVE SortByValueFrom(_, _)
SortByValueFrom(todo, sorted) ==
  IF todo = <<>> THEN sorted
  ELSE SortByValueFrom(Tail(todo), InsertByValue(Head(todo), sorted))

SortByValue(items) == SortByValueFrom(items, <<>>)

\* The placeholder configuration returned by the radar, heatmap and
\* parallel builders when a required column list is empty
\* A placeholder that keeps the requested chart type with no data
PlaceholderConfig_typedEmpty(baseConfig, colors) ==
  [ baseConfig EXCEPT
      !.color = Some(colors),
      !.series = Some(<< Series("radar", NONE, <<>>, NONE) >>) ]

PlaceholderConfig(baseConfig, colors) ==
  [ baseConfig EXCEPT
      !.color = Some(colors),
      !.series = Some(<< Series("bar", NONE, <<"0">>, NONE) >>),
      !.xAxis = Some(Axis("category", NONE, <<"No Data">>)),
      !.yAxis = Some(Axis("value", NONE, <<>>)) ]

\* ------------------------------------------------------------------------
\* Validator / sanitizer
\* ------------------------------------------------------------------------
HasType(s) == s.type # NONE /\ s.type # ""

validateAndSanitizeSeries(series) ==
  Map(LAMBDA s : [ s EXCEPT !.data = IF s.data = Nothing THEN Some(<<>>) ELSE s.data ],
      SelectSeq(series, HasType))

\* ------------------------------------------------------------------------
\* Builders with derived numeric ranges
\* ------------------------------------------------------------------------
\* A radar builder that leaves out the indicator block
createRadarChart_noIndicator(baseConfig, data, suggestion, colors) ==
  Returned([ baseConfig EXCEPT
    !.color = Some(colors),
    !.series = Some(<< Series("radar", NONE, <<>>, "0.3") >>) ])

createRadarChart(baseConfig, data, suggestion, colors) ==
  LET numericColumns == Slice(data.summary.numericColumns, RadarMaxMetrics)
      categoryColumn == At(data.summary.stringColumns, 0)
      categoryIndex == FindIndex(data, categoryColumn)
      Indicator(col) ==
        LET colIndex == FindIndex(data, col)
            values == SelectSeq(Map(LAMBDA row : OrZero(Number(Cell(row, colIndex))), data.rows),
                                IsFiniteNum)
            maxValue == IF Len(values) > 0 THEN MathMax(values) ELSE Num(FallbackMax)
        IN [ name |-> col, max |-> Tok(OrFallbackMax(Times12(maxValue))) ]
      sample == Slice(data.rows, RadarMaxRows)
      SeriesItem(index) ==
        LET row == sample[index]
        IN [ value |-> Map(LAMBDA col : Tok(SafeNumber(Cell(row, FindIndex(data, col)))),
                           numericColumns),
             name |-> IF categoryIndex >= 0 /\ Cell(row, categoryIndex) # NONE
                      THEN StringOf(Cell(row, categoryIndex))
                      ELSE "Item " \o ToString(index) ]
      seriesData == [ index \in 1..Len(sample) |-> SeriesItem(index) ]
  IN IF Len(numericColumns) = 0
     THEN Returned(PlaceholderConfig(baseConfig, colors))
     ELSE Returned([ baseConfig EXCEPT
            !.color = Some(colors),
            !.radar = Some(Map(Indicator, numericColumns)),
            !.series = Some(validateAndSanitizeSeries(
                         << Series("radar", NONE, seriesData, "0.3") >>)) ])

\* rnd[i] is the value Math.random() * 100 takes for row i
createHeatmapChart(baseConfig, data, suggestion, colors, rnd) ==
  LET xColumn == OrElse(suggestion.xAxis, At(data.summary.stringColumns, 0))
      yColumn == OrElse(At(data.summary.stringColumns, 1), At(data.summary.stringColumns, 0))
      valueColumn == OrElse(YAxis0(suggestion), At(data.summary.numericColumns, 0))
      xIndex == FindIndex(data, xColumn)
      yIndex == FindIndex(data, yColumn)
      valueIndex == FindIndex(data, valueColumn)
      Point(i) ==
        LET row == data.rows[i]
            xValue == IF xIndex >= 0 THEN StringOf(Cell(row, xIndex)) ELSE "X" \o ToString(i - 1)
            yValue == IF yIndex >= 0 THEN StringOf(Cell(row, yIndex)) ELSE "Y" \o ToString(i - 1)
            value == IF valueIndex >= 0 THEN OrZero(Number(Cell(row, valueIndex))) ELSE Num(rnd[i])
        IN << xValue, yValue, Tok(IF ~IsFiniteNum(value) THEN Num(0) ELSE value) >>
      heatmapData == [ i \in 1..Len(data.rows) |-> Point(i) ]
      values == [ i \in 1..Len(data.rows) |->
                    LET value == IF valueIndex >= 0
                                 THEN OrZero(Number(Cell(data.rows[i], valueIndex)))
                                 ELSE Num(rnd[i])
                    IN IF ~IsFiniteNum(value) THEN Num(0) ELSE value ]
      maxValue == IF Len(values) > 0 THEN MathMax(values) ELSE Num(FallbackMax)
  IN IF xColumn = NONE \/ valueColumn = NONE
     THEN Returned(PlaceholderConfig(baseConfig, colors))
     ELSE Returned([ baseConfig EXCEPT
            !.color = Some(colors),
            !.visualMap = Some([ min |-> "0", max |-> Tok(maxValue) ]),
            !.xAxis = Some(Axis("category", NONE, Unique(Map(LAMBDA d : d[1], heatmapData)))),
            !.yAxis = Some(Axis("category", NONE, Unique(Map(LAMBDA d : d[2], heatmapData)))),
            !.series = Some(<< Series("heatmap", NONE, heatmapData, NONE) >>) ])

createFunnelChart(baseConfig, data, suggestion, colors) ==
  LET nameColumn == OrElse(suggestion.xAxis, At(data.summary.stringColumns, 0))
      valueColumn == OrElse(YAxis0(suggestion), At(data.summary.numericColumns, 0))
      nameIndex == FindIndex(data, nameColumn)
      valueIndex == FindIndex(data, valueColumn)
      Stage(i) ==
        [ name |-> IF nameIndex >= 0 THEN StringOf(Cell(data.rows[i], nameIndex))
                   ELSE "Stage " \o ToString(i),
          value |-> IF valueIndex >= 0 THEN Number(Cell(data.rows[i], valueIndex)) ELSE Num(0) ]
      funnelData == SortByValue([ i \in 1..Len(data.rows) |-> Stage(i) ])
      payload == Map(LAMBDA d : [ name |-> d.name, value |-> Tok(d.value) ], funnelData)
  IN Returned([ baseConfig EXCEPT
       !.color = Some(colors),
       !.series = Some(<< [ Series("funnel", NONE, payload, NONE) EXCEPT
                              !.max = Tok(MathMax(Map(LAMBDA d : d.value, funnelData))) ] >>) ])

createGaugeChart(baseConfig, data, suggestion, colors) ==
  LET valueColumn == OrElse(YAxis0(suggestion), At(data.summary.numericColumns, 0))
      valueIndex == FindIndex(data, valueColumn)
      values == Map(LAMBDA row : IF valueIndex >= 0 THEN Number(Cell(row, valueIndex)) ELSE Num(0),
                    data.rows)
      maxValue == MathMax(values)
      avgValue == Average(values)
  IN Returned([ baseConfig EXCEPT
       !.color = Some(colors),
       !.series = Some(<< [ Series("gauge", NONE,
                                   << [ value |-> avgValue, name |-> valueColumn ] >>, NONE)
                            EXCEPT !.max = Tok(Times12(maxValue)) ] >>) ])

\* name/value items shared by the treemap and sunburst builders
NameValueItems(data, nameIndex, valueIndex, n, rnd) ==
  [ i \in 1..n |->
      [ name |-> IF nameIndex >= 0 THEN StringOf(Cell(data.rows[i], nameIndex))
                 ELSE "Item " \o ToString(i),
        value |-> IF valueIndex >= 0 THEN Tok(Number(Cell(data.rows[i], valueIndex)))
                  ELSE Tok(Num(rnd[i])) ] ]

createTreemapChart(baseConfig, data, suggestion, colors, rnd) ==
  LET nameColumn == OrElse(suggestion.xAxis, At(data.summary.stringColumns, 0))
      valueColumn == OrElse(YAxis0(suggestion), At(data.summary.numericColumns, 0))
      nameIndex == FindIndex(data, nameColumn)
      valueIndex == FindIndex(data, valueColumn)
      treemapData == NameValueItems(data, nameIndex, valueIndex, Len(data.rows), rnd)
  IN Returned([ baseConfig EXCEPT
       !.color = Some(colors),
       !.series = Some(<< Series("treemap", NONE, treemapData, NONE) >>) ])

createSunburstChart(baseConfig, data, suggestion, colors, rnd) ==
  LET nameColumn == OrElse(suggestion.xAxis, At(data.summary.stringColumns, 0))
      valueColumn == OrElse(YAxis0(suggestion), At(data.summary.numericColumns, 0))
      nameIndex == FindIndex(data, nameColumn)
      valueIndex == FindIndex(data, valueColumn)
      children == NameValueItems(data, nameIndex, valueIndex,
                                 Len(Slice(data.rows, SunburstMaxRows)), rnd)
      sunburstData == [ name |-> "Root", children |-> children ]
  IN Returned([ baseConfig EXCEPT
       !.color = Some(colors),
       !.series = Some(<< Series("sunburst", NONE, << sunburstData >>, NONE) >>) ])

createParallelChart(baseConfig, data, suggestion, colors) ==
  LET numericColumns == Slice(data.summary.numericColumns, ParallelMaxMetrics)
      AxisOf(index) ==
        LET col == numericColumns[index]
            colIndex == FindIndex(data, col)
            values == SelectSeq(Map(LAMBDA row : OrZero(Number(Cell(row, colIndex))), data.rows),
                                IsFiniteNum)
        IN [ dim |-> index - 1, name |-> col,
             min |-> IF Len(values) > 0 THEN Tok(MathMin(values)) ELSE "0",
             max |-> IF Len(values) > 0 THEN Tok(MathMax(values)) ELSE Tok(Num(FallbackMax)) ]
      parallelAxis == [ index \in 1..Len(numericColumns) |-> AxisOf(index) ]
      parallelData ==
        Map(LAMBDA row : Map(LAMBDA col : Tok(SafeNumber(Cell(row, FindIndex(data, col)))),
                             numericColumns),
            Slice(data.rows, ParallelMaxRows))
  IN IF Len(numericColumns) = 0
     THEN Returned(PlaceholderConfig(baseConfig, colors))
     ELSE Returned([ baseConfig EXCEPT
            !.color = Some(colors),
            !.parallelAxis = Some(parallelAxis),
            !.series = Some(<< Series("parallel", NONE, parallelData, NONE) >>) ])

\* ------------------------------------------------------------------------
\* Builders that substitute another chart type
\* ------------------------------------------------------------------------
createSankeyChart(baseConfig, data, suggestion, colors) ==
  WithLog("Sankey chart requires specific data structure - falling back to bar chart",
          createBarChart(baseConfig, data, suggestion, colors))

createGraphChart(baseConfig, data, suggestion, colors) ==
  WithLog("Graph chart requires node/edge data structure - falling back to scatter chart",
          createScatterChart(baseConfig, data, suggestion, colors))

createBoxplotChart(baseConfig, data, suggestion, colors) ==
  WithLog("Boxplot chart requires statistical analysis - falling back to bar chart",
          createBarChart(baseConfig, data, suggestion, colors))

createCandlestickChart(baseConfig, data, suggestion, colors) ==
  WithLog("Candlestick chart requires OHLC data - falling back to line chart",
          createLineChart(baseConfig, data, suggestion, colors))

createThemeRiverChart(baseConfig, data, suggestion, colors) ==
  WithLog("Theme river chart requires time series data - falling back to area chart",
          createAreaChart(baseConfig, data, suggestion, colors))

\* ------------------------------------------------------------------------
\* Configuration synthesizer
\* ------------------------------------------------------------------------
\* The switch of createLocalEChartsOption
BuildChart(baseConfig, data, suggestion, colors, rnd) ==
  CASE suggestion.type = "bar" -> createBarChart(baseConfig, data, suggestion, colors)
    [] suggestion.type = "line" -> createLineChart(baseConfig, data, suggestion, colors)
    [] suggestion.type = "pie" -> createPieChart(baseConfig, data, suggestion, colors)
    [] suggestion.type = "scatter" -> createScatterChart(baseConfig, data, suggestion, colors)
    [] suggestion.type = "area" -> createAreaChart(baseConfig, data, suggestion, colors)
    [] suggestion.type = "radar" -> createRadarChart(baseConfig, data, suggestion, colors)
    [] suggestion.type = "heatmap" -> createHeatmapChart(baseConfig, data, suggestion, colors, rnd)
    [] suggestion.type = "funnel" -> createFunnelChart(baseConfig, data, suggestion, colors)
    [] suggestion.type = "gauge" -> createGaugeChart(baseConfig, data, suggestion, colors)
    [] suggestion.type = "treemap" -> createTreemapChart(baseConfig, data, suggestion, colors, rnd)
    [] suggestion.type = "sunburst" -> createSunburstChart(baseConfig, data, suggestion, colors, rnd)
    [] suggestion.type = "parallel" -> createParallelChart(baseConfig, data, suggestion, colors)
    [] suggestion.type = "sankey" -> createSankeyChart(baseConfig, data, suggestion, colors)
    [] suggestion.type = "graph" -> createGraphChart(baseConfig, data, suggestion, colors)
    [] suggestion.type = "boxplot" -> createBoxplotChart(baseConfig, data, suggestion, colors)
    [] suggestion.type = "candlestick" -> createCandlestickChart(baseConfig, data, suggestion, colors)
    [] suggestion.type = "themeRiver" -> createThemeRiverChart(baseConfig, data, suggestion, colors)
    [] OTHER ->
         WithLog("Chart type not implemented, falling back to bar chart",
                 createBarChart(baseConfig, data, suggestion, colors))

\* try { switch } catch { createBarChart }: the call in the catch block is
\* not itself guarded
BuildChartOrBar(baseConfig, data, suggestion, colors, rnd) ==
  LET tried == BuildChart(baseConfig, data, suggestion, colors, rnd)
      again == createBarChart(baseConfig, data, suggestion, colors)
  IN IF tried.threw
     THEN [ again EXCEPT !.log = tried.log \o <<"Error creating chart", "Falling back to bar chart">> \o @ ]
     ELSE tried

\* The validation block at the end of createLocalEChartsOption
SanitizeConfig(chartConfig) ==
  IF chartConfig.series # Nothing
  THEN LET validated == validateAndSanitizeSeries(chartConfig.series[1])
           kept == SelectSeq(validated, HasType)
       IN [ chartConfig EXCEPT
              !.series = Some(IF Len(kept) = 0 THEN << SafeFallbackSeries >> ELSE kept) ]
  ELSE [ chartConfig EXCEPT !.series = Some(<< SafeFallbackSeries >>) ]

\* A slip that returns baseConfig in place of the validated chartConfig
createLocalEChartsOption_returnsBase(suggestion, data, title, rnd) ==
  LET baseConfig == BaseConfig(OrElse(title, suggestion.title))
      built == BuildChartOrBar(baseConfig, data, suggestion, colorPalette, rnd)
  IN IF built.threw THEN built ELSE [ built EXCEPT !.config = baseConfig ]

createLocalEChartsOption(suggestion, data, title, rnd) ==
  LET chartTitle == OrElse(title, suggestion.title)
      baseConfig == BaseConfig(chartTitle)
      built == BuildChartOrBar(baseConfig, data, suggestion, colorPalette, rnd)
  IN IF built.threw THEN built
     ELSE [ built EXCEPT !.config = SanitizeConfig(built.config) ]

\* ------------------------------------------------------------------------
\* Enhancement client: requests, responses and fallbacks
\* ------------------------------------------------------------------------
\* An MCPResponse, or a rejected call (threw)
Response(threw, success, suggestions, chartConfig) ==
  [ threw |-> threw, success |-> success,
    suggestions |-> suggestions, chartConfig |-> chartConfig ]

NoResponse == Response(FALSE, FALSE, Nothing, Nothing)

\* callMCPServer as the repository ships it: a simulated server
callMCPServer(tool, dataInfo) ==
  IF tool = "generate_suggestions"
  THEN Response(FALSE, TRUE, Some(MockSuggestions(dataInfo)), Nothing)
  ELSE Response(FALSE, TRUE, Nothing, Nothing)

\* Suggestion lists an external server may send in place of the simulated one
ExternalSuggestionLists ==
  { <<>>,
    << MCPSuggestion("pie", NONE, NONE, Nothing, NONE, NONE),
       MCPSuggestion("gauge", "Gauge", "A gauge", Some(120), NONE, "advanced") >> }

\* Chart configurations an external server may send
ExternalConfig(title, tooltip, series) ==
  [ BaseConfig("external") EXCEPT !.title = title, !.tooltip = tooltip, !.series = series ]

ExternalChartConfigs ==
  { ExternalConfig(Some("AI chart"), Some("axis"), Some(<< Series("line", "s", <<"1", "2">>, NONE) >>)),
    ExternalConfig(Some("AI chart"), Some("axis"), Some(<<>>)),
    ExternalConfig(Some("AI chart"), Some("axis"), Some(<< Series(NONE, "s", <<"1">>, NONE) >>)),
    ExternalConfig(Some("AI chart"), Some("axis"), Nothing),
    ExternalConfig(Nothing, Some("axis"), Some(<< Series("bar", "s", <<"1">>, NONE) >>)) }

\* Every outcome of one call of callMCPServer(tool, ...)
Responses(tool, data) ==
  { callMCPServer(tool, prepareDataForMCP(data)),
    Response(TRUE, FALSE, Nothing, Nothing),
    Response(FALSE, FALSE, Nothing, Nothing),
    Response(FALSE, TRUE, Nothing, Nothing) }
  \cup IF tool = "generate_suggestions"
       THEN { Response(FALSE, TRUE, Some(l), Nothing) : l \in ExternalSuggestionLists }
       ELSE { Response(FALSE, TRUE, Nothing, Some(c)) : c \in ExternalChartConfigs }

processMCPSuggestions(mcpData) ==
  IF mcpData.suggestions = Nothing THEN <<>>
  ELSE LET list == mcpData.suggestions[1]
           Convert(index) ==
             LET suggestion == list[index]
             IN [ type |-> OrElse(suggestion.type, "bar"),
                  title |-> OrElse(suggestion.title, "AI Suggested Chart " \o ToString(index)),
                  description |-> OrElse(suggestion.description, "AI-generated chart suggestion"),
                  confidence |-> IF suggestion.confidence = Nothing \/ suggestion.confidence = Some(0)
                                 THEN 85 ELSE suggestion.confidence[1],
                  xAxis |-> suggestion.xAxis,
                  yAxis |-> IF suggestion.yAxis # NONE /\ suggestion.yAxis # ""
                            THEN << suggestion.yAxis >> ELSE <<>>,
                  series |-> suggestion.series,
                  useCase |-> suggestion.useCase,
                  complexity |-> OrElse(suggestion.complexity, "simple"),
                  aiEnhanced |-> FALSE ]
       IN [ index \in 1..Len(list) |-> Convert(index) ]

generateFallbackSuggestions(data) ==
  LET nStr == Len(data.summary.stringColumns)
      nNum == Len(data.summary.numericColumns)
      suggestions ==
        PushIf(nStr >= 1 /\ nNum >= 1,
          Suggestion("bar", "Category Comparison", "Compare values across categories",
            85, At(data.summary.stringColumns, 0), <<At(data.summary.numericColumns, 0)>>,
            NONE, NONE, NONE))
        \o PushIf(nNum >= 2,
          Suggestion("scatter", "Correlation Analysis", "Explore relationships between variables",
            80, At(data.summary.numericColumns, 0), <<At(data.summary.numericColumns, 1)>>,
            NONE, NONE, NONE))
  IN SortByConfidence(suggestions)

fallbackColors == << "#6366f1", "#8b5cf6", "#06b6d4", "#10b981", "#f59e0b", "#ef4444" >>

generateFallbackConfig(suggestion, data) ==
  LET config == [ BaseConfig(suggestion.title) EXCEPT
                    !.color = Some(fallbackColors), !.series = Nothing ]
  IN IF suggestion.type = "bar"
     THEN [ config EXCEPT
              !.xAxis = Some(Axis("category", NONE, ColumnCells(data, 0))),
              !.yAxis = Some(Axis("value", NONE, <<>>)),
              !.series = Some(<< Series("bar", NONE, ColumnCells(data, 1), NONE) >>) ]
     ELSE config

enhanceEChartsConfig(mcpConfig) ==
  [ mcpConfig EXCEPT !.backgroundColor = "transparent", !.color = Some(fallbackColors) ]

\* The value a suggestions call resolves to; `requests` counts the calls of
\* callMCPServer it made
generateEnhancedSuggestions(isConnected, data, mcpResponse) ==
  IF ~isConnected
  THEN [ suggestions |-> generateFallbackSuggestions(data), requests |-> 0 ]
  ELSE IF mcpResponse.threw
  THEN [ suggestions |-> generateFallbackSuggestions(data), requests |-> 1 ]
  ELSE IF mcpResponse.success /\ mcpResponse.suggestions # Nothing
  THEN [ suggestions |-> processMCPSuggestions(mcpResponse), requests |-> 1 ]
  ELSE [ suggestions |-> generateFallbackSuggestions(data), requests |-> 1 ]

generateEChartsConfig(isConnected, suggestion, data, mcpResponse) ==
  IF ~isConnected
  THEN [ config |-> generateFallbackConfig(suggestion, data), requests |-> 0 ]
  ELSE IF mcpResponse.threw
  THEN [ config |-> generateFallbackConfig(suggestion, data), requests |-> 1 ]
  ELSE IF mcpResponse.success /\ mcpResponse.chartConfig # Nothing
  THEN [ config |-> enhanceEChartsConfig(mcpResponse.chartConfig[1]), requests |-> 1 ]
  ELSE [ config |-> generateFallbackConfig(suggestion, data), requests |-> 1 ]

\* ------------------------------------------------------------------------
\* Entry points of chartSuggestions.ts
\* ------------------------------------------------------------------------
isValidEChartsOption(config) ==
  config.title # Nothing /\ config.tooltip # Nothing /\ config.series # Nothing

\* connected is the value of isConnected after the awaited initialize()
generateChartSuggestions(connected, data, mcpResponse) ==
  LET mcpSuggestions == generateEnhancedSuggestions(connected, data, mcpResponse).suggestions
  IN IF Len(mcpSuggestions) > 0
     THEN Map(LAMBDA s : [ s EXCEPT !.aiEnhanced = TRUE ], mcpSuggestions)
     ELSE generateLocalSuggestions(data)

createEChartsOption(suggestion, data, title, isConnected, mcpResponse, rnd) ==
  LET mcpConfig == generateEChartsConfig(isConnected, suggestion, data, mcpResponse).config
  IN IF suggestion.aiEnhanced /\ isValidEChartsOption(mcpConfig)
     THEN Returned(mcpConfig)
     ELSE createLocalEChartsOption(suggestion, data, title, rnd)

\* What the availability probe inside checkServerAvailability() meets
AvailabilityProbes == { "available", "unavailable", "error" }

\* checkServerAvailability() without its own try/catch
checkServerAvailability_uncaught(probe) ==
  [ threw |-> probe = "error", value |-> probe = "available" ]

\* checkServerAvailability(): the body runs in a try whose catch returns
\* false, so the promise never rejects
checkServerAvailability(probe) ==
  [ threw |-> FALSE, value |-> probe = "available" ]

\* initialize(): check is what the awaited checkServerAvailability() settled
\* to; the catch block returns false and leaves isConnected as it was
initialize(enabled, isConnected, check) ==
  IF ~enabled
  THEN [ isConnected |-> isConnected, returned |-> FALSE ]
  ELSE IF check.threw
  THEN [ isConnected |-> isConnected, returned |-> FALSE ]
  ELSE [ isConnected |-> check.value, returned |-> check.value ]

\* ------------------------------------------------------------------------
\* Inputs of the explored calls
\* ------------------------------------------------------------------------
\* Column references a hand-made suggestion carries: none, existing
\* columns, and names of columns the Table does not have
RefChoices ==
  { [ xAxis |-> NONE, yAxis |-> <<>>, series |-> NONE ],
    [ xAxis |-> "c1", yAxis |-> <<"c2">>, series |-> NONE ],
    [ xAxis |-> "c2", yAxis |-> <<"c1">>, series |-> "c2" ],
    [ xAxis |-> GHOST, yAxis |-> <<>>, series |-> NONE ],
    [ xAxis |-> NONE, yAxis |-> <<GHOST>>, series |-> GHOST ] }

\* Hand-made suggestions of every type: untagged ones with every choice of
\* references, and tagged ones (as the enhancement path hands them out,
\* without references)
CraftedSuggestions ==
  { Suggestion(t, "Chart", "A chart", 50, r.xAxis, r.yAxis, r.series, NONE, NONE) :
      t \in ChartTypes, r \in RefChoices }
  \cup { [ Suggestion(t, "Chart", "A chart", 50, NONE, <<>>, NONE, NONE, NONE)
            EXCEPT !.aiEnhanced = TRUE ] : t \in ChartTypes }

\* Suggestions the generators hand out for the Table, as the App selects them
OfferedSuggestions(data) ==
  UNION { Range(generateChartSuggestions(c, data, r)) :
            c \in BOOLEAN, r \in Responses("generate_suggestions", data) }

SuggestionInputs(data) == CraftedSuggestions \cup OfferedSuggestions(data)

\* The draws of Math.random() * 100 one call can see, one per row; only
\* the heatmap, treemap and sunburst builders call Math.random
RandomDraws(suggestion, data) ==
  IF suggestion.type \in { "heatmap", "treemap", "sunburst" }
  THEN [ 1..Len(data.rows) -> RandomValues ]
  ELSE { [ i \in 1..Len(data.rows) |-> 0 ] }

NoSuggestion == Suggestion(NONE, NONE, NONE, 0, NONE, <<>>, NONE, NONE, NONE)

\* ------------------------------------------------------------------------
\* State
\* ------------------------------------------------------------------------
VARIABLES
  enabled,      \* MCPEChartsService.config.enabled
  isConnected,  \* MCPEChartsService.isConnected
  data,         \* the Table (ParsedData) of the current upload
  op,           \* the call that has just settled, or "idle"
  arg,          \* the suggestion passed to that call
  response,     \* what callMCPServer resolved to during that call
  result,       \* what the call returned
  currentStep,        \* App: "upload", "preview" or "chart"
  loading,            \* App: loading
  appData,            \* App: data, empty for null, else the upload and its Table
  appSuggestions,     \* App: suggestions
  selectedSuggestion, \* App: selectedSuggestion, empty for null
  chartOption,        \* App: chartOption, empty for null
  tasks               \* App: the handler invocations started so far, in order

serviceVars == << enabled, isConnected >>

callVars == << data, op, arg, response, result >>

appVars == << currentStep, loading, appData, appSuggestions, selectedSuggestion,
              chartOption, tasks >>

vars == << enabled, isConnected, data, op, arg, response, result,
           currentStep, loading, appData, appSuggestions, selectedSuggestion,
           chartOption, tasks >>

\* The App as mounted: useState initial values, no handler started
AppMounted ==
  /\ currentStep = "upload"
  /\ loading = FALSE
  /\ appData = Nothing
  /\ appSuggestions = [ file |-> 0, list |-> <<>> ]
  /\ selectedSuggestion = Nothing
  /\ chartOption = Nothing
  /\ tasks = <<>>

\* The record a settled call leaves; path is "mcp" or "local" for a
\* configuration, by where it came from
Result(threw, returned, suggestions, config, log, requests, path) ==
  [ threw |-> threw, returned |-> returned, suggestions |-> suggestions,
    config |-> config, log |-> log, requests |-> requests, path |-> path ]

NoResult == Result(FALSE, FALSE, <<>>, BaseConfig(NONE), <<>>, 0, NONE)

Init ==
  /\ enabled \in BOOLEAN
  /\ isConnected = FALSE
  /\ data \in Tables
  /\ op = "idle"
  /\ arg = NoSuggestion
  /\ response = NoResponse
  /\ result = NoResult
  /\ AppMounted

\* await mcpEChartsService.initialize()
Initialize ==
  /\ op = "idle"
  /\ \E probe \in AvailabilityProbes :
       LET r == initialize(enabled, isConnected, checkServerAvailability(probe))
       IN /\ isConnected' = r.isConnected
          /\ result' = [ NoResult EXCEPT !.returned = r.returned ]
  /\ op' = "initialize"
  /\ UNCHANGED << enabled, data, arg, response >>

\* generateLocalSuggestions(data)
GenerateLocalSuggestions ==
  /\ op = "idle"
  /\ op' = "generateLocalSuggestions"
  /\ result' = [ NoResult EXCEPT !.suggestions = generateLocalSuggestions(data) ]
  /\ UNCHANGED << enabled, isConnected, data, arg, response >>

\* await mcpEChartsService.generateEnhancedSuggestions(data)
GenerateEnhancedSuggestions ==
  /\ op = "idle"
  /\ \E r \in (IF isConnected THEN Responses("generate_suggestions", data) ELSE { NoResponse }) :
       LET out == generateEnhancedSuggestions(isConnected, data, r)
       IN /\ response' = r
          /\ result' = [ NoResult EXCEPT !.suggestions = out.suggestions,
                                         !.requests = out.requests ]
  /\ op' = "generateEnhancedSuggestions"
  /\ UNCHANGED << enabled, isConnected, data, arg >>

\* await generateChartSuggestions(data): initialize, then the enhanced
\* suggestions, then the tagging or the local fallback
GenerateChartSuggestions ==
  /\ op = "idle"
  /\ \E probe \in AvailabilityProbes :
       LET init == initialize(enabled, isConnected, checkServerAvailability(probe))
       IN /\ isConnected' = init.isConnected
          /\ \E r \in (IF init.isConnected THEN Responses("generate_suggestions", data)
                       ELSE { NoResponse }) :
               /\ response' = r
               /\ result' = [ NoResult EXCEPT
                    !.returned = init.returned,
                    !.suggestions = generateChartSuggestions(init.isConnected, data, r),
                    !.requests = generateEnhancedSuggestions(init.isConnected, data, r).requests ]
  /\ op' = "generateChartSuggestions"
  /\ UNCHANGED << enabled, data, arg >>

\* await createEChartsOption(suggestion, data, title); the App passes no
\* title or suggestion.title
CreateEChartsOption ==
  /\ op = "idle"
  /\ \E suggestion \in SuggestionInputs(data), title \in { NONE, "title" } :
       \E rnd \in RandomDraws(suggestion, data),
          r \in (IF suggestion.aiEnhanced /\ isConnected
                THEN Responses("generate_chart", data) ELSE { NoResponse }) :
         LET chartTitle == IF title = NONE THEN NONE ELSE suggestion.title
             mcp == generateEChartsConfig(isConnected, suggestion, data, r)
             out == createEChartsOption(suggestion, data, chartTitle, isConnected, r, rnd)
             viaMcp == suggestion.aiEnhanced /\ isValidEChartsOption(mcp.config)
         IN /\ arg' = suggestion
            /\ response' = r
            /\ result' = [ NoResult EXCEPT
                 !.threw = out.threw, !.config = out.config, !.log = out.log,
                 !.requests = IF suggestion.aiEnhanced THEN mcp.requests ELSE 0,
                 !.path = IF viaMcp THEN "mcp" ELSE "local" ]
  /\ op' = "createEChartsOption"
  /\ UNCHANGED << enabled, isConnected, data >>

\* The caller takes the settled value; the next call can be made
Return ==
  /\ op # "idle"
  /\ op' = "idle"
  /\ arg' = NoSuggestion
  /\ response' = NoResponse
  /\ result' = NoResult
  /\ UNCHANGED << enabled, isConnected, data >>

\* The calls are explored on the service and one Table; no App handler runs
Next ==
  /\ \/ Initialize
     \/ GenerateLocalSuggestions
     \/ GenerateEnhancedSuggestions
     \/ GenerateChartSuggestions
     \/ CreateEChartsOption
     \/ Return
  /\ UNCHANGED appVars

Spec == Init /\ [][Next]_vars

\* ------------------------------------------------------------------------
\* The row-sampling builders on long Tables: createEChartsOption with an
\* untagged radar or parallel suggestion, on Tables of up to MaxSampleRows
\* rows
\* ------------------------------------------------------------------------
SampleTypes == { << "number" >>, << "string", "number", "number" >> }

SampleTables == { MkTable(types, n) : types \in SampleTypes, n \in 0..MaxSampleRows }

SampleInit ==
  /\ enabled = TRUE
  /\ isConnected = FALSE
  /\ data \in SampleTables
  /\ op = "idle"
  /\ arg = NoSuggestion
  /\ response = NoResponse
  /\ result = NoResult
  /\ AppMounted

SampleCreateEChartsOption ==
  /\ op = "idle"
  /\ \E type \in { "radar", "parallel" } :
       LET suggestion == Suggestion(type, "Chart", "A chart", 50, NONE, <<>>, NONE, NONE, NONE)
           rnd == [ i \in 1..Len(data.rows) |-> 0 ]
           out == createEChartsOption(suggestion, data, NONE, isConnected, NoResponse, rnd)
       IN /\ arg' = suggestion
          /\ result' = [ NoResult EXCEPT
               !.threw = out.threw, !.config = out.config, !.log = out.log,
               !.path = "local" ]
  /\ op' = "createEChartsOption"
  /\ UNCHANGED << enabled, isConnected, data, response >>

SampleNext ==
  /\ \/ SampleCreateEChartsOption
     \/ Return
  /\ UNCHANGED appVars

SampleSpec == SampleInit /\ [][SampleNext]_vars

\* ========================================================================
\* The App: handleFileSelect, handleSuggestionSelect and handleReset as
\* asynchronous handlers.  A handler runs without interruption up to an
\* await that waits for the file reader or for callMCPServer; awaits of
\* promises that are already settled continue in the same step.
\* ========================================================================
\* The Tables the uploaded files parse to
AppTables ==
  { MkTable(<<"string", "number">>, 1), MkTable(<<"number">>, 1) }

\* What one call of callMCPServer settles to, once it settles
AppResponses(tool, table) ==
  { callMCPServer(tool, prepareDataForMCP(table)),
    Response(TRUE, FALSE, Nothing, Nothing) }

\* One handler invocation: its position, the file and Table it works on,
\* and the suggestion whose configuration it awaits
Task(kind, pc, file, table, suggestion) ==
  [ kind |-> kind, pc |-> pc, file |-> file, table |-> table,
    suggestion |-> suggestion ]

Pending(i) == i \in 1..Len(tasks) /\ tasks[i].pc # "done"

\* A suggestion and a configuration, with the upload they were made for
Selected(file, suggestion) == [ file |-> file, suggestion |-> suggestion ]

Chart(file, suggestion, config) ==
  [ file |-> file, suggestion |-> suggestion, config |-> config ]

AppInit ==
  /\ enabled = TRUE
  /\ isConnected = FALSE
  /\ data = MkTable(<< >>, 0)
  /\ op = "idle"
  /\ arg = NoSuggestion
  /\ response = NoResponse
  /\ result = NoResult
  /\ AppMounted

\* setChartOption(option) after `await createEChartsOption(...)`; a rejected
\* promise leaves chartOption as it was
SetChartOption(option, file, suggestion) ==
  chartOption' = IF option.threw THEN chartOption
                 ELSE Some(Chart(file, suggestion, option.config))

\* handleFileSelect from the settled createEChartsOption to its finally
FileSelectEnds(i, option, firstSuggestion) ==
  /\ SetChartOption(option, tasks[i].file, firstSuggestion)
  /\ loading' = FALSE
  /\ tasks' = [ tasks EXCEPT ![i].pc = "done" ]

\* handleFileSelect from `setData(parsedData)` on, chartSuggestions being
\* what the awaited generateChartSuggestions returned and connected the
\* service's isConnected at that point
AfterSuggestions(i, connected, chartSuggestions) ==
  /\ appData' = Some([ file |-> tasks[i].file, table |-> tasks[i].table ])
  /\ appSuggestions' = [ file |-> tasks[i].file, list |-> chartSuggestions ]
  /\ currentStep' = "preview"
  /\ IF Len(chartSuggestions) > 0
     THEN /\ selectedSuggestion' = Some(Selected(tasks[i].file, chartSuggestions[1]))
          /\ IF chartSuggestions[1].aiEnhanced /\ connected
             THEN /\ tasks' = [ tasks EXCEPT ![i].pc = "config",
                                            ![i].suggestion = chartSuggestions[1] ]
                  /\ UNCHANGED << chartOption, loading >>
             ELSE \E rnd \in RandomDraws(chartSuggestions[1], tasks[i].table) :
                    FileSelectEnds(i,
                      createEChartsOption(chartSuggestions[1], tasks[i].table,
                                          NONE, connected, NoResponse, rnd),
                      chartSuggestions[1])
     ELSE /\ loading' = FALSE
          /\ tasks' = [ tasks EXCEPT ![i].pc = "done" ]
          /\ UNCHANGED << selectedSuggestion, chartOption >>

\* handleFileSelect up to `await parseCSV/parseJSON/parseExcel(file)`.  The
\* FileUpload control is rendered only in the upload step and shows a
\* spinner in place of its inputs while loading.
StartFileSelect ==
  /\ currentStep = "upload"
  /\ ~loading
  /\ Len(tasks) < MaxTasks
  /\ \E table \in AppTables :
       tasks' = Append(tasks, Task("file", "parse", Len(tasks) + 1, table, NoSuggestion))
  /\ loading' = TRUE
  /\ UNCHANGED << currentStep, appData, appSuggestions, selectedSuggestion,
                  chartOption, serviceVars, callVars >>

\* The parser settles: a rejection goes to the catch and the finally; else
\* generateChartSuggestions runs initialize() and, when connected, waits
\* for callMCPServer
ParseSettles(i) ==
  /\ Pending(i)
  /\ tasks[i].pc = "parse"
  /\ \/ /\ loading' = FALSE
        /\ tasks' = [ tasks EXCEPT ![i].pc = "done" ]
        /\ UNCHANGED << currentStep, appData, appSuggestions, selectedSuggestion,
                        chartOption, isConnected >>
     \/ \E probe \in AvailabilityProbes :
          LET init == initialize(enabled, isConnected, checkServerAvailability(probe))
          IN /\ isConnected' = init.isConnected
             /\ IF init.isConnected
                THEN /\ tasks' = [ tasks EXCEPT ![i].pc = "suggestions" ]
                     /\ UNCHANGED << currentStep, loading, appData, appSuggestions,
                                     selectedSuggestion, chartOption >>
                ELSE AfterSuggestions(i, FALSE,
                       generateChartSuggestions(FALSE, tasks[i].table, NoResponse))
  /\ UNCHANGED << enabled, callVars >>

\* callMCPServer("generate_suggestions") settles
SuggestionsSettle(i) ==
  /\ Pending(i)
  /\ tasks[i].pc = "suggestions"
  /\ isConnected' = isConnected
  /\ \E r \in AppResponses("generate_suggestions", tasks[i].table) :
       AfterSuggestions(i, TRUE, generateChartSuggestions(TRUE, tasks[i].table, r))
  /\ UNCHANGED << enabled, callVars >>

\* handleSuggestionSelect from the settled createEChartsOption on; a
\* rejected promise ends the handler there
SuggestionSelectEnds(option, file, suggestion) ==
  /\ SetChartOption(option, file, suggestion)
  /\ currentStep' = IF option.threw THEN currentStep ELSE "chart"

\* callMCPServer("generate_chart") settles, in handleFileSelect or in
\* handleSuggestionSelect
ConfigSettles(i) ==
  /\ Pending(i)
  /\ tasks[i].pc = "config"
  /\ \E r \in AppResponses("generate_chart", tasks[i].table),
        rnd \in RandomDraws(tasks[i].suggestion, tasks[i].table) :
       IF tasks[i].kind = "file"
       THEN /\ FileSelectEnds(i,
                 createEChartsOption(tasks[i].suggestion, tasks[i].table, NONE, TRUE, r, rnd),
                 tasks[i].suggestion)
            /\ UNCHANGED currentStep
       ELSE /\ SuggestionSelectEnds(
                 createEChartsOption(tasks[i].suggestion, tasks[i].table,
                                     tasks[i].suggestion.title, TRUE, r, rnd),
                 tasks[i].file, tasks[i].suggestion)
            /\ tasks' = [ tasks EXCEPT ![i].pc = "done" ]
            /\ UNCHANGED loading
  /\ UNCHANGED << appData, appSuggestions, selectedSuggestion, serviceVars, callVars >>

\* handleSuggestionSelect(suggestion) on a suggestion of the rendered list
HandleSuggestionSelect ==
  /\ currentStep # "upload"
  /\ appData # Nothing
  /\ \E k \in 1..Len(appSuggestions.list) :
       /\ selectedSuggestion' = Some(Selected(appSuggestions.file, appSuggestions.list[k]))
       /\ IF appSuggestions.list[k].aiEnhanced /\ isConnected
          THEN /\ Len(tasks) < MaxTasks
               /\ tasks' = Append(tasks, Task("select", "config", appData[1].file,
                                              appData[1].table, appSuggestions.list[k]))
               /\ UNCHANGED << chartOption, currentStep >>
          ELSE /\ \E rnd \in RandomDraws(appSuggestions.list[k], appData[1].table) :
                    SuggestionSelectEnds(
                      createEChartsOption(appSuggestions.list[k], appData[1].table,
                                          appSuggestions.list[k].title, isConnected,
                                          NoResponse, rnd),
                      appData[1].file, appSuggestions.list[k])
               /\ UNCHANGED tasks
  /\ UNCHANGED << loading, appData, appSuggestions, serviceVars, callVars >>

\* handleReset, from the button rendered while data is not null
HandleReset ==
  /\ appData # Nothing
  /\ currentStep' = "upload"
  /\ appData' = Nothing
  /\ appSuggestions' = [ file |-> 0, list |-> <<>> ]
  /\ selectedSuggestion' = Nothing
  /\ chartOption' = Nothing
  /\ UNCHANGED << loading, tasks, serviceVars, callVars >>

AppNext ==
  \/ StartFileSelect
  \/ \E i \in 1..MaxTasks : ParseSettles(i)
  \/ \E i \in 1..MaxTasks : SuggestionsSettle(i)
  \/ \E i \in 1..MaxTasks : ConfigSettles(i)
  \/ HandleSuggestionSelect
  \/ HandleReset

AppSpec == AppInit /\ [][AppNext]_vars

\* The file reader always settles and the handlers' own steps always run;
\* nothing makes callMCPServer settle
AppLive ==
  /\ AppSpec
  /\ \A i \in 1..MaxTasks : WF_vars(ParseSettles(i))

\* ========================================================================
\* Properties
\* ========================================================================
\* Facts about the Table read off its columns (not off its summary)
CountOfType(table, type) ==
  Cardinality({ i \in 1..Len(table.columns) : table.columns[i].type = type })

FirstOfType(table, type, k) ==
  LET idx == { i \in 1..Len(table.columns) : table.columns[i].type = type }
      kth == CHOOSE i \in idx : Cardinality({ j \in idx : j < i }) = k - 1
  IN table.columns[kth].name

\* The rule table of the local suggestion generator
RuleHolds(type, table) ==
  LET nStr == CountOfType(table, "string")
      nNum == CountOfType(table, "number")
      nDate == CountOfType(table, "date")
  IN CASE type = "bar" -> nStr >= 1 /\ nNum >= 1
       [] type = "line" -> nDate >= 1 /\ nNum >= 1
       [] type = "pie" -> nStr >= 1 /\ nNum >= 1
       [] type = "scatter" -> nNum >= 2
       [] type = "area" -> nDate >= 1 /\ nNum >= 1
       [] type = "radar" -> nNum >= 3
       [] type = "heatmap" -> nNum >= 2 /\ nStr >= 1
       [] OTHER -> FALSE

Baseline(type) ==
  CASE type = "bar" -> 85
    [] type = "line" -> 90
    [] type = "pie" -> 70
    [] type = "scatter" -> 80
    [] type = "area" -> 75
    [] type = "radar" -> 75
    [] type = "heatmap" -> 65
    [] OTHER -> 0

\* Every element of a series list has a non-empty type and a data payload
WellFormedSeries(config) ==
  /\ config.series # Nothing
  /\ Len(config.series[1]) >= 1
  /\ \A i \in 1..Len(config.series[1]) :
       /\ config.series[1][i].type # NONE
       /\ config.series[1][i].type # ""
       /\ config.series[1][i].data # Nothing

LocalConfigReturned ==
  op = "createEChartsOption" /\ result.path = "local" /\ ~result.threw

\* C1: every configuration the local synthesizer returns, for each of the
\* eighteen suggestion types and every Table, has at least one series, and
\* every series has a non-empty type and a defined data payload.
C1_LocalSeriesWellFormed ==
  LocalConfigReturned => WellFormedSeries(result.config)

C1_Witness ==
  /\ LocalConfigReturned
  /\ arg.type = "treemap"
  /\ Len(data.rows) = 1
  /\ result.config.series[1][1].type = "treemap"

\* C2: configuration synthesis never raises to its caller: createEChartsOption
\* returns a configuration for every suggestion type and every Table.
C2_NeverRaises ==
  op = "createEChartsOption" => ~result.threw

\* C3: every configuration createEChartsOption returns, from the local
\* synthesizer or accepted from the enhancement client, has a non-empty
\* series list whose elements all carry a type.
C3_OutputSeriesNonEmpty ==
  (op = "createEChartsOption" /\ ~result.threw) =>
    /\ result.config.series # Nothing
    /\ Len(result.config.series[1]) >= 1
    /\ \A i \in 1..Len(result.config.series[1]) : HasType(result.config.series[1][i])

\* C4: when the enhancement client is not connected, generateEnhancedSuggestions
\* returns the same set of suggestions as generateLocalSuggestions on the Table.
C4_FallbackEqualsLocal ==
  (op = "generateEnhancedSuggestions" /\ ~isConnected) =>
    Range(result.suggestions) = Range(generateLocalSuggestions(data))

\* C5: for a Table on which one of the seven local rules holds, the list
\* returned by generateEnhancedSuggestions and by generateChartSuggestions is
\* non-empty, whatever the availability and the outcome of the enhancement call.
C5_NeverEmptyWhenRuleHolds ==
  ( /\ op \in { "generateEnhancedSuggestions", "generateChartSuggestions" }
    /\ \E t \in ChartTypes : RuleHolds(t, data) )
  => Len(result.suggestions) >= 1

\* C6: in every suggestion list returned to the caller, an earlier
\* suggestion has a confidence at least that of every later one.
C6_RankedByConfidence ==
  op \in { "generateLocalSuggestions", "generateEnhancedSuggestions", "generateChartSuggestions" }
  => \A i, j \in 1..Len(result.suggestions) :
       i < j => result.suggestions[i].confidence >= result.suggestions[j].confidence

\* The settled call built its list from a successful enhancement response
FromEnhancementResponse ==
  /\ isConnected
  /\ ~response.threw
  /\ response.success
  /\ response.suggestions # Nothing

\* C7: a returned suggestion is tagged aiEnhanced only if it was built from
\* a successful external enhancement response.
C7_TaggedOnlyWhenEnhanced ==
  op \in { "generateEnhancedSuggestions", "generateChartSuggestions" }
  => \A i \in 1..Len(result.suggestions) :
       result.suggestions[i].aiEnhanced => FromEnhancementResponse

\* The series type each substituted chart type is said to be drawn with
SubstituteOf(type) ==
  CASE type = "sankey" -> "bar"
    [] type = "graph" -> "scatter"
    [] type = "boxplot" -> "bar"
    [] type = "candlestick" -> "line"
    [] type = "themeRiver" -> "area"
    [] OTHER -> type

SubstitutedTypes == { "sankey", "graph", "boxplot", "candlestick", "themeRiver" }

\* C8: a sankey, graph, boxplot, candlestick or themeRiver suggestion always
\* yields a configuration whose series type is bar, scatter, bar, line or
\* area respectively, and the substitution is flagged by a warning.
C8_SubstitutionDeterministic ==
  ( /\ op = "createEChartsOption"
    /\ result.path = "local"
    /\ arg.type \in SubstitutedTypes )
  => /\ ~result.threw
     /\ Len(result.log) >= 1
     /\ \A i \in 1..Len(result.config.series[1]) :
          result.config.series[1][i].type = SubstituteOf(arg.type)

C10_BarAndPie ==
  ( /\ op = "generateLocalSuggestions"
    /\ CountOfType(data, "string") >= 1
    /\ CountOfType(data, "number") >= 1 )
  => \E i, j \in 1..Len(result.suggestions) :
       /\ i < j
       /\ result.suggestions[i].type = "bar"
       /\ result.suggestions[i].confidence = 85
       /\ result.suggestions[i].xAxis = FirstOfType(data, "string", 1)
       /\ result.suggestions[i].yAxis = << FirstOfType(data, "number", 1) >>
       /\ result.suggestions[j].type = "pie"
       /\ result.suggestions[j].confidence = 70
       /\ result.suggestions[j].series = FirstOfType(data, "string", 1)

C10_Witness ==
  /\ op = "generateLocalSuggestions"
  /\ Len(data.columns) = 3
  /\ data.columns[1].type = "number"
  /\ data.columns[2].type = "string"
  /\ data.columns[3].type = "string"
  /\ result.suggestions[1].type = "bar"
  /\ result.suggestions[1].xAxis = "c2"

\* C11: on a Table with two or more numeric columns the output of
\* generateLocalSuggestions holds a scatter suggestion whose xAxis is the
\* first numeric column, whose yAxis is the second, the two being distinct.
C11_ScatterOnFirstTwoNumeric ==
  (op = "generateLocalSuggestions" /\ CountOfType(data, "number") >= 2)
  => \E i \in 1..Len(result.suggestions) :
       /\ result.suggestions[i].type = "scatter"
       /\ result.suggestions[i].xAxis = FirstOfType(data, "number", 1)
       /\ result.suggestions[i].yAxis = << FirstOfType(data, "number", 2) >>
       /\ result.suggestions[i].xAxis # result.suggestions[i].yAxis[1]

C11_Witness ==
  /\ op = "generateLocalSuggestions"
  /\ Len(data.columns) = 4
  /\ data.columns[1].type = "string"
  /\ data.columns[2].type = "number"
  /\ data.columns[3].type = "date"
  /\ data.columns[4].type = "number"
  /\ \E i \in 1..Len(result.suggestions) :
       /\ result.suggestions[i].type = "scatter"
       /\ result.suggestions[i].xAxis = "c2"
       /\ result.suggestions[i].yAxis = <<"c4">>

\* C12: createEChartsOption accepts a configuration of the enhancement
\* client only if it has a title, a tooltip and a non-empty series array.
C12_AcceptsOnlyShapedConfig ==
  (op = "createEChartsOption" /\ result.path = "mcp") =>
    /\ result.config.title # Nothing
    /\ result.config.tooltip # Nothing
    /\ result.config.series # Nothing
    /\ Len(result.config.series[1]) >= 1

\* C13: initialize() does not throw; whenever it returns false the client
\* is not connected afterwards, whatever an earlier initialize() returned,
\* and a call made while not connected issues no external request.
C13_FalseMeansUnavailable ==
  /\ op = "initialize" => (~result.threw /\ (~result.returned => ~isConnected))
  /\ op = "generateChartSuggestions" =>
       (~result.returned => (~isConnected /\ result.requests = 0))
  /\ (op \in { "generateEnhancedSuggestions", "createEChartsOption" } /\ ~isConnected)
       => result.requests = 0

C13_Witness ==
  /\ op = "generateChartSuggestions"
  /\ enabled
  /\ ~result.returned
  /\ ~isConnected
  /\ result.requests = 0
  /\ Len(result.suggestions) >= 1

\* The enhancement request of the settled call ended in an error: an
\* exception, success = false, no suggestion list, or an empty one
EnhancementRequestFailed ==
  \/ response.threw
  \/ ~response.success
  \/ response.suggestions = Nothing
  \/ response.suggestions = Some(<<>>)

\* C14: when the client is connected and the enhancement request ends in
\* an error, generateEnhancedSuggestions returns the fallback suggestions
\* of the Table, not the external result.
C14_ErrorFallsBack ==
  (op = "generateEnhancedSuggestions" /\ isConnected /\ EnhancementRequestFailed)
  => /\ ~result.threw
     /\ result.suggestions = generateFallbackSuggestions(data)

\* Handler invocation i waits for callMCPServer
AwaitsEnhancement(i) ==
  i <= Len(tasks) /\ tasks[i].pc \in { "suggestions", "config" }

Settled(i) == i <= Len(tasks) /\ tasks[i].pc = "done"

UploadsNeverOverlap ==
  Cardinality({ i \in 1..Len(tasks) : tasks[i].kind = "file" /\ tasks[i].pc # "done" }) <= 1

\* The series list is the minimal placeholder: one bar series with data [0]
IsPlaceholderSeries(config) ==
  /\ config.series # Nothing
  /\ Len(config.series[1]) = 1
  /\ config.series[1][1].type = "bar"
  /\ config.series[1][1].data = Some(<<"0">>)

\* C17: for every chart type, when the value column cannot be resolved
\* (the Table has no numeric column and the suggestion names none) the
\* configuration the local synthesizer returns has the placeholder series,
\* not a series of the requested type over undefined, NaN or random values.
C17_UnresolvedColumnGivesPlaceholder ==
  ( /\ LocalConfigReturned
    /\ arg.type \in ChartTypes
    /\ Len(data.rows) >= 1
    /\ CountOfType(data, "number") = 0
    /\ arg.yAxis = <<>> )
  => IsPlaceholderSeries(result.config)

\* C18: a radar or parallel suggestion on a Table without numeric columns
\* returns, without an exception, a configuration with exactly one series,
\* a bar with data [0], on a category axis labelled "No Data".
C18_RadarParallelPlaceholder ==
  ( /\ op = "createEChartsOption"
    /\ result.path = "local"
    /\ arg.type \in { "radar", "parallel" }
    /\ CountOfType(data, "number") = 0 )
  => /\ ~result.threw
     /\ IsPlaceholderSeries(result.config)
     /\ result.config.xAxis # Nothing
     /\ result.config.xAxis[1].data = <<"No Data">>

C18_Witness ==
  /\ op = "createEChartsOption"
  /\ result.path = "local"
  /\ arg.type = "radar"
  /\ CountOfType(data, "number") = 0
  /\ CountOfType(data, "string") = 2
  /\ Len(data.rows) = 1
  /\ IsPlaceholderSeries(result.config)

DefaultBranchMessage == "Chart type not implemented, falling back to bar chart"

\* C19: for none of the eighteen chart types does a configuration come
\* from the default branch "not implemented, falling back to bar chart".
C19_NoDefaultBranch ==
  (LocalConfigReturned /\ arg.type \in ChartTypes)
  => DefaultBranchMessage \notin Range(result.log)

\* The enhancement client gave no configuration for the settled call: it
\* was not connected, or its request threw, failed or carried none
EnhancedConfigUnavailable ==
  \/ ~isConnected
  \/ response.threw
  \/ ~response.success
  \/ response.chartConfig = Nothing

\* Type and data payload of every series of a configuration
SeriesPayload(config) ==
  IF config.series = Nothing THEN <<>>
  ELSE [ i \in 1..Len(config.series[1]) |->
         [ type |-> config.series[1][i].type, data |-> config.series[1][i].data ] ]

\* C20: when the enhancement client is unavailable or its call fails, the
\* configuration createEChartsOption returns for an aiEnhanced suggestion
\* is the one the local synthesizer produces for that suggestion and
\* Table: same outcome, same series payloads.
C20_ConfigFallbackEqualsLocal ==
  ( /\ op = "createEChartsOption"
    /\ arg.aiEnhanced
    /\ EnhancedConfigUnavailable )
  => \E rnd \in RandomDraws(arg, data), title \in { NONE, arg.title } :
       LET local == createLocalEChartsOption(arg, data, title, rnd)
       IN /\ result.threw = local.threw
          /\ ~local.threw => SeriesPayload(result.config) = SeriesPayload(local.config)

\* C21: on a Table with three or more numeric columns generateLocalSuggestions
\* hands out a radar suggestion, and the configuration synthesized for that
\* suggestion has a radar indicator block and at least one series, every
\* series of type radar.
C21_RadarSuggestedAndDrawn ==
  /\ (op = "generateLocalSuggestions" /\ CountOfType(data, "number") >= 3)
       => \E i \in 1..Len(result.suggestions) : result.suggestions[i].type = "radar"
  /\ ( /\ op = "createEChartsOption"
       /\ arg.type = "radar"
       /\ arg \in Range(generateLocalSuggestions(data)) )
     => /\ ~result.threw
        /\ result.config.radar # Nothing
        /\ Len(result.config.radar[1]) >= 3
        /\ WellFormedSeries(result.config)
        /\ \A i \in 1..Len(result.config.series[1]) :
             result.config.series[1][i].type = "radar"

C21_Witness ==
  /\ op = "createEChartsOption"
  /\ arg.type = "radar"
  /\ arg \in Range(generateLocalSuggestions(data))
  /\ CountOfType(data, "number") = 3
  /\ CountOfType(data, "string") = 1
  /\ Len(data.rows) = 1
  /\ Len(result.config.radar[1]) = 3
  /\ result.config.series[1][1].type = "radar"

\* C22: every configuration createEChartsOption returns carries the fixed
\* ordered palette of 8 colours, whichever chart type and path produced it.
C22_SamePaletteEverywhere ==
  (op = "createEChartsOption" /\ ~result.threw)
  => result.config.color = Some(colorPalette)

\* C23: every suggestion returned by suggestion generation has a
\* confidence between 0 and 100, also when it was mapped from an external
\* response whose confidence is missing or out of that range.
C23_ConfidenceInRange ==
  op \in { "generateLocalSuggestions", "generateEnhancedSuggestions", "generateChartSuggestions" }
  => \A i \in 1..Len(result.suggestions) :
       result.suggestions[i].confidence \in 0..100

\* A bound written into a configuration is a defined finite number
FiniteBound(tok) == tok \notin { NONE, "NaN", "Infinity", "-Infinity" }

\* C24: the derived numeric ranges of a returned configuration (radar
\* indicator max, parallel axis min and max, gauge scale max) are defined
\* finite numbers, for every Table, a Table with zero rows included.
C24_RangesFinite ==
  LocalConfigReturned =>
    /\ (arg.type = "radar" /\ result.config.radar # Nothing)
         => \A i \in 1..Len(result.config.radar[1]) :
              FiniteBound(result.config.radar[1][i].max)
    /\ (arg.type = "parallel" /\ result.config.parallelAxis # Nothing)
         => \A i \in 1..Len(result.config.parallelAxis[1]) :
              /\ FiniteBound(result.config.parallelAxis[1][i].min)
              /\ FiniteBound(result.config.parallelAxis[1][i].max)
    /\ arg.type = "gauge"
         => \A i \in 1..Len(result.config.series[1]) :
              FiniteBound(result.config.series[1][i].max)

\* The numeric cells of row r, in column order
NumericCellsOf(table, r) ==
  LET idx == SelectSeq([ i \in 1..Len(table.columns) |-> i ],
                       LAMBDA i : table.columns[i].type = "number")
  IN [ k \in 1..Len(idx) |-> table.rows[r][idx[k]] ]

SampledPoints == result.config.series[1][1].data[1]

\* C25: for any row count n the parallel series holds exactly min(n, 50)
\* data points and the radar series exactly min(n, 5) entries, and the i-th
\* of them is made of the i-th row of the Table.
C25_RowSamplingCapped ==
  ( /\ LocalConfigReturned /\ arg.type \in { "radar", "parallel" }
    /\ CountOfType(data, "number") >= 1 )
  => LET n == Len(data.rows)
         cap == IF arg.type = "radar" THEN 5 ELSE 50
         kept == IF n < cap THEN n ELSE cap
     IN /\ Len(result.config.series[1]) = 1
        /\ Len(SampledPoints) = kept
        /\ \A i \in 1..kept :
             IF arg.type = "radar"
             THEN SampledPoints[i].value = NumericCellsOf(data, i)
             ELSE SampledPoints[i] = NumericCellsOf(data, i)

\* a parallel chart of a Table of more than 50 rows, and it holds 50 points
C25_Witness ==
  /\ LocalConfigReturned /\ arg.type = "parallel"
  /\ Len(data.rows) > 50
  /\ Len(SampledPoints) = 50

\* The position of suggestion x in the list
IndexIn(list, x) == CHOOSE k \in 1..Len(list) : list[k] = x

\* C26: the ranked list is a permutation of the suggestions the fired rules
\* produced, in descending confidence, and suggestions of equal confidence
\* keep the order in which the rules produced them.
C26_RankerStablePermutation ==
  op = "generateLocalSuggestions" =>
    LET produced == LocalRules(data)
        ranked == result.suggestions
    IN /\ Len(ranked) = Len(produced)
       /\ \A k \in 1..Len(produced) : \E i \in 1..Len(ranked) : ranked[i] = produced[k]
       /\ \A i, j \in 1..Len(ranked) :
            i < j => /\ ranked[i].confidence >= ranked[j].confidence
                     /\ ranked[i].confidence = ranked[j].confidence
                          => IndexIn(produced, ranked[i]) < IndexIn(produced, ranked[j])

\* area and radar, both of confidence 75, are produced and ranked in that order
C26_Witness ==
  /\ op = "generateLocalSuggestions"
  /\ \E i, j \in 1..Len(result.suggestions) :
       /\ i < j
       /\ result.suggestions[i].type = "area" /\ result.suggestions[i].confidence = 75
       /\ result.suggestions[j].type = "radar" /\ result.suggestions[j].confidence = 75

\* The names of the entries of an indicator or axis list
NamesOf(list) == [ i \in 1..Len(list) |-> list[i].name ]

\* C27: a builder plots the columns the suggestion names: with yAxis naming
\* an existing numeric column, the bar series is that column, every heatmap
\* value is that column's cell, and the radar and parallel axes are the
\* named columns, not the positional default.
C27_ExplicitColumnsPlotted ==
  ( /\ LocalConfigReturned /\ ~arg.aiEnhanced
    /\ Len(arg.yAxis) >= 1
    /\ arg.yAxis[1] \in Range(data.summary.numericColumns) )
  => LET named == arg.yAxis[1]
         namedIndex == FindIndex(data, named)
     IN /\ arg.type = "bar"
             => /\ result.config.series[1][1].name = named
                /\ result.config.series[1][1].data = Some(ColumnCells(data, namedIndex))
        /\ (arg.type = "heatmap" /\ result.config.visualMap # Nothing)
             => \A i \in 1..Len(data.rows) :
                  result.config.series[1][1].data[1][i][3] = Cell(data.rows[i], namedIndex)
        /\ (arg.type = "radar" /\ result.config.radar # Nothing)
             => NamesOf(result.config.radar[1]) = arg.yAxis
        /\ (arg.type = "parallel" /\ result.config.parallelAxis # Nothing)
             => NamesOf(result.config.parallelAxis[1]) = arg.yAxis

\* No handler invocation is waiting
AllSettled == \A i \in 1..Len(tasks) : tasks[i].pc = "done"

C29_ResetStateStaysEmpty ==
  /\ currentStep \in { "chart", "preview" } => appData # Nothing
  /\ appData = Nothing
       => /\ currentStep = "upload"
          /\ appSuggestions.list = <<>>
          /\ selectedSuggestion = Nothing
          /\ chartOption = Nothing

\* C30: a second call of the local synthesizer with the same suggestion and
\* the same Table returns the series the first call returned, whatever
\* Math.random yields in it.
C30_LocalSynthesisDeterministic ==
  LocalConfigReturned =>
    \A rnd \in RandomDraws(arg, data) :
      LET again == createLocalEChartsOption(arg, data, NONE, rnd)
      IN ~again.threw /\ again.config.series = result.config.series

====
